---- MODULE Spec2Model ----
(***************************************************************************)
(* Model of the bump allocator in src/main.rs.                             *)
(*                                                                         *)
(* Addresses are usize values of AddrBits bits.  The allocator GLOBAL has  *)
(* the plain fields heap_start and heap_end and the atomic cursor next.    *)
(* alloc reads next once (line 39), computes on locals (lines 42-46) and   *)
(* writes next at most once (line 53), so under concurrent callers a call  *)
(* is two steps: the load, and everything after it.  With a single caller  *)
(* nothing can come between the two and the call is one step.              *)
(* `addr + align - 1` in align_up is unchecked usize arithmetic: a build   *)
(* with overflow checks panics on overflow, a build without them wraps     *)
(* modulo 2^AddrBits.  The model leaves the build open: where the addition *)
(* overflows, both outcomes are steps.                                     *)
(* init_heap writes heap_start and heap_end through a pointer cast of the  *)
(* shared static; the model takes the writes to land, which is what every  *)
(* build of a static holding an atomic does.                               *)
(***************************************************************************)
EXTENDS Naturals, Sequences, FiniteSets

\* ---------------------------------------------------------------- bounds
\* width of usize in bits (the program's is the target's pointer width)
AddrBits == 3
\* length of the backing array HEAP (the program's is 1 MiB, main.rs:7)
HEAP_SIZE == 3
\* calls of alloc and dealloc issued in one run of a single caller
MaxCalls == 3
\* calls of alloc and dealloc issued in one run of concurrent callers
MaxConcCalls == 2

\* the callers: the main thread alone, or the main thread and one it spawned
MainThread == 1
Caller == {MainThread}
Threads == {MainThread, 2}

\* ------------------------------------------------------ usize arithmetic
RECURSIVE Pow2(_)
Pow2(n) == IF n = 0 THEN 1 ELSE 2 * Pow2(n - 1)

\* usize::MAX
UsizeMax == Pow2(AddrBits) - 1
\* isize::MAX
IsizeMax == Pow2(AddrBits - 1) - 1

Usize == 0..UsizeMax

\* a + b without overflow checks
WrappingAdd(a, b) == (a + b) % Pow2(AddrBits)
\* a - b without overflow checks
WrappingSub(a, b) == (a + Pow2(AddrBits) - b) % Pow2(AddrBits)
\* usize::saturating_add
SaturatingAdd(a, b) == IF a + b > UsizeMax THEN UsizeMax ELSE a + b

\* a & b on n-bit operands
RECURSIVE BitAndN(_, _, _)
BitAndN(a, b, n) ==
    IF n = 0 THEN 0
    ELSE (IF a % 2 = 1 /\ b % 2 = 1 THEN 1 ELSE 0)
         + 2 * BitAndN(a \div 2, b \div 2, n - 1)

BitAnd(a, b) == BitAndN(a, b, AddrBits)
\* !a
BitNot(a) == UsizeMax - a

\* align_up with the mask taken from align instead of align - 1
align_up_mask_off_by_one(addr, align) ==
    BitAnd(WrappingSub(WrappingAdd(addr, align), 1), BitNot(align))

\* align_up: (addr + align - 1) & !(align - 1), as a build without overflow
\* checks computes it
align_up(addr, align) ==
    BitAnd(WrappingSub(WrappingAdd(addr, align), 1), BitNot(WrappingSub(align, 1)))

\* align_up's arithmetic overflows: `addr + align` exceeds usize::MAX
\* (align >= 1, so the following `- 1` never underflows when the sum fits)
AlignUpOverflows(addr, align) == addr + align > UsizeMax

\* ---------------------------------------------------------------- Layout
\* core::alloc::Layout: align is a power of two and size, rounded up to
\* align, does not exceed isize::MAX
Aligns == {Pow2(k) : k \in 0..(AddrBits - 1)}
Layouts ==
    {l \in [size : 0..IsizeMax, align : Aligns] : l.size + (l.align - 1) <= IsizeMax}

\* ----------------------------------------------------------------- state
VARIABLES
    heap_start,       \* GLOBAL.heap_start
    heap_end,         \* GLOBAL.heap_end
    next,             \* GLOBAL.next
    inited,           \* init_heap has run
    pc,               \* per caller: "idle", "loaded" (inside alloc, after line 39)
                      \* or "gone" (panicked)
    layout,           \* per caller: the layout of the call in progress
    current_next,     \* per caller: the local current_next
    panicked,         \* a caller panicked; the process is gone
    allocs,           \* the calls that returned a non-null pointer, in order
    last,             \* how the last call ended: "none" before any did,
                      \* "panic", "oom", "stored" (alloc) or "dealloc"
    ncalls            \* calls started

vars == <<heap_start, heap_end, next, inited, pc, layout,
          current_next, panicked, allocs, last, ncalls>>

NoLayout == [size |-> 0, align |-> 1]

\* static GLOBAL (lines 65-70): all three fields zero
Init ==
    /\ heap_start = 0
    /\ heap_end = 0
    /\ next = 0
    /\ inited = FALSE
    /\ pc = [t \in Threads |-> "idle"]
    /\ layout = [t \in Threads |-> NoLayout]
    /\ current_next = [t \in Threads |-> 0]
    /\ panicked = FALSE
    /\ allocs = <<>>
    /\ last = "none"
    /\ ncalls = 0

\* the addresses the loader can give HEAP: non-null, and the array's
\* one-past-the-end address is a usize
HeapAddrs == {a \in Usize : a >= 1 /\ a + HEAP_SIZE <= UsizeMax}

\* init_heap (lines 76-86), called once, first thing in main
init_heap ==
    /\ ~inited
    /\ ~panicked
    /\ \A t \in Threads : pc[t] = "idle"
    /\ \E start \in HeapAddrs :
        /\ next' = start
        /\ heap_start' = start
        /\ heap_end' = start + HEAP_SIZE
    /\ inited' = TRUE
    /\ UNCHANGED <<pc, layout, current_next, panicked, allocs,
                   last, ncalls>>

\* the locals of lines 42-43, for the loaded cursor c and the layout l
Aligned(c, l) == align_up(c, l.align)
NewNext(c, l) == SaturatingAdd(Aligned(c, l), l.size)

\* line 42: `addr + align` overflows, which panics in a build with overflow
\* checks
Panics(c, l) == AlignUpOverflows(c, l.align)

\* the call of caller t returns: its locals are gone
Return(t) ==
    /\ pc' = [pc EXCEPT ![t] = "idle"]
    /\ layout' = [layout EXCEPT ![t] = NoLayout]
    /\ current_next' = [current_next EXCEPT ![t] = 0]

\* what the log keeps of a call that returned a non-null pointer: the
\* address, the layout, the cursor it loaded, and whether next had changed
\* between its load and its store
Returned(t, c, l) ==
    [addr |-> Aligned(c, l), size |-> l.size, align |-> l.align, seen |-> c,
     stale |-> next # c]

\* alloc, line 42, in a build with overflow checks: the overflow panics
AllocPanic(t, c, l) ==
    /\ Panics(c, l)
    /\ panicked' = TRUE
    /\ pc' = [pc EXCEPT ![t] = "gone"]
    /\ layout' = [layout EXCEPT ![t] = NoLayout]
    /\ current_next' = [current_next EXCEPT ![t] = 0]
    /\ last' = "panic"
    /\ UNCHANGED <<heap_start, heap_end, next, inited, allocs>>

\* alloc, lines 42-49: new_next > heap_end, return null_mut()
\* (on overflow: what a build without overflow checks does)
AllocOom(t, c, l) ==
    /\ NewNext(c, l) > heap_end
    /\ Return(t)
    /\ last' = "oom"
    /\ UNCHANGED <<heap_start, heap_end, next, inited, panicked,
                   allocs>>

\* AllocStore as a compare-and-swap would do it: a call whose loaded cursor
\* is stale gives up instead of storing
AllocStoreCas(t, c, l) ==
    /\ NewNext(c, l) <= heap_end
    /\ Return(t)
    /\ IF next = c
       THEN /\ next' = NewNext(c, l)
            /\ last' = "stored"
            /\ allocs' = IF Aligned(c, l) # 0 THEN Append(allocs, Returned(t, c, l))
                         ELSE allocs
       ELSE /\ last' = "oom"
            /\ UNCHANGED <<next, allocs>>
    /\ UNCHANGED <<heap_start, heap_end, inited, panicked>>

\* AllocStore without the check of line 46 in front of it
AllocStoreUnchecked(t, c, l) ==
    /\ next' = NewNext(c, l)
    /\ Return(t)
    /\ last' = "stored"
    /\ allocs' = IF Aligned(c, l) # 0 THEN Append(allocs, Returned(t, c, l))
                 ELSE allocs
    /\ UNCHANGED <<heap_start, heap_end, inited, panicked>>

\* alloc, lines 42-55: store new_next, return aligned
\* (on overflow: what a build without overflow checks does)
AllocStore(t, c, l) ==
    /\ NewNext(c, l) <= heap_end
    /\ next' = NewNext(c, l)
    /\ Return(t)
    /\ last' = "stored"
    /\ allocs' = IF Aligned(c, l) # 0 THEN Append(allocs, Returned(t, c, l))
                 ELSE allocs
    /\ UNCHANGED <<heap_start, heap_end, inited, panicked>>

\* alloc (lines 34-56) of a single caller: the whole call
alloc(t) ==
    /\ ~panicked
    /\ pc[t] = "idle"
    /\ ncalls < MaxCalls
    /\ ncalls' = ncalls + 1
    /\ \E l \in Layouts :
        \/ AllocPanic(t, next, l)
        \/ AllocOom(t, next, l)
        \/ AllocStore(t, next, l)

\* a thread other than the main one exists only once main has run init_heap
\* (line 90 is main's first statement)
Runs(t) == t = MainThread \/ inited

\* alloc, lines 35-39: take the layout apart and load next
AllocLoad(t) ==
    /\ ~panicked
    /\ Runs(t)
    /\ pc[t] = "idle"
    /\ ncalls < MaxConcCalls
    /\ \E l \in Layouts : layout' = [layout EXCEPT ![t] = l]
    /\ current_next' = [current_next EXCEPT ![t] = next]
    /\ pc' = [pc EXCEPT ![t] = "loaded"]
    /\ ncalls' = ncalls + 1
    /\ UNCHANGED <<heap_start, heap_end, next, inited, panicked,
                   allocs, last>>

\* alloc, lines 42-55, on the locals the load left
AllocRest(t) ==
    /\ ~panicked
    /\ pc[t] = "loaded"
    /\ UNCHANGED ncalls
    /\ \/ AllocPanic(t, current_next[t], layout[t])
       \/ AllocOom(t, current_next[t], layout[t])
       \/ AllocStore(t, current_next[t], layout[t])

\* the arguments a caller may pass to dealloc: any pointer, any layout
DeallocArgs == Usize \X Layouts

\* dealloc giving the block back when it is the last one handed out
deallocRewind(t, max) ==
    /\ ~panicked
    /\ Runs(t)
    /\ pc[t] = "idle"
    /\ ncalls < max
    /\ \E a \in DeallocArgs :
        next' = IF a[1] + a[2].size = next THEN a[1] ELSE next
    /\ last' = "dealloc"
    /\ ncalls' = ncalls + 1
    /\ UNCHANGED <<heap_start, heap_end, inited, pc, layout,
                   current_next, panicked, allocs>>

\* dealloc (lines 58-61): the body is empty and reads neither argument, so
\* the step is the same for every argument there is
dealloc(t, max) ==
    /\ ~panicked
    /\ Runs(t)
    /\ pc[t] = "idle"
    /\ ncalls < max
    /\ DeallocArgs # {}
    /\ last' = "dealloc"
    /\ ncalls' = ncalls + 1
    /\ UNCHANGED <<heap_start, heap_end, next, inited, pc, layout,
                   current_next, panicked, allocs>>

\* one caller, one call at a time
Next ==
    \/ init_heap
    \/ \E t \in Caller : alloc(t)
    \/ \E t \in Caller : dealloc(t, MaxCalls)

Spec == Init /\ [][Next]_vars

\* several callers; the steps of their calls interleave
NextConc ==
    \/ init_heap
    \/ \E t \in Threads : AllocLoad(t)
    \/ \E t \in Threads : AllocRest(t)
    \/ \E t \in Threads : dealloc(t, MaxConcCalls)

SpecConc == Init /\ [][NextConc]_vars

\* several callers, each of which keeps running once it is inside alloc:
\* lines 42-55 have no loop and wait for nothing
SpecFair == SpecConc /\ \A t \in Threads : WF_vars(AllocRest(t))

\* ================================================================ claims
\* the byte ranges [addr, addr + size) of two logged calls share a byte
Overlap(r1, r2) ==
    /\ r1.size > 0
    /\ r2.size > 0
    /\ r1.addr < r2.addr + r2.size
    /\ r2.addr < r1.addr + r1.size

\* round_up(c, a) over the unbounded integers
RoundUpExact(c, a) == ((c + a - 1) \div a) * a

\* a step that is a whole call of alloc by a single caller
AllocCall ==
    /\ ncalls' # ncalls
    /\ last' \in {"panic", "oom", "stored"}
    /\ \A t \in Threads : pc[t] = "idle" /\ pc'[t] # "loaded"

\* C1: with a single caller, the ranges of the calls that returned a pointer
\* are pairwise non-overlapping.
C1_Disjoint ==
    \A i, j \in 1..Len(allocs) : i < j => ~Overlap(allocs[i], allocs[j])

\* C2: the store of line 53 is unconditional: a call whose check passed
\* stores its own new_next even when another caller has moved next since
\* this call loaded it, so the other caller's update is overwritten and both
\* calls return ranges computed from the same cursor.
C2_StoreOverwrites ==
    [][\A t \in Threads :
         (/\ pc[t] = "loaded"
          /\ pc'[t] = "idle"
          /\ NewNext(current_next[t], layout[t]) <= heap_end)
         => next' = NewNext(current_next[t], layout[t])]_vars

\* C2, witness: two calls loaded the same cursor, the second stored over the
\* first one's update, both were given a pointer, and their ranges overlap.
C2_RaceOverlap ==
    \E i, j \in 1..Len(allocs) :
        /\ i < j
        /\ allocs[j].stale
        /\ allocs[i].seen = allocs[j].seen
        /\ Overlap(allocs[i], allocs[j])

\* C3: every address alloc returns is a multiple of the layout's align.
C3_Aligned ==
    \A i \in 1..Len(allocs) : allocs[i].addr % allocs[i].align = 0

\* C3, witness: a returned address that had to be rounded up from a cursor
\* that was not a multiple of align.
C3_RoundedUp ==
    \E i \in 1..Len(allocs) :
        /\ allocs[i].align > 1
        /\ allocs[i].seen % allocs[i].align # 0
        /\ allocs[i].addr > allocs[i].seen

\* C4: after init, between operations, heap_start <= next <= heap_end.
C4_CursorInBounds ==
    (inited /\ \A t \in Threads : pc[t] = "idle")
        => (heap_start <= next /\ next <= heap_end)

\* C5: a call of alloc that returns the null pointer (OUT_OF_MEMORY) leaves
\* next, heap_start and heap_end as they were.
C5_FailureNoSideEffect ==
    [][(AllocCall /\ last' # "panic" /\ allocs' = allocs)
         => UNCHANGED <<next, heap_start, heap_end>>]_vars

\* C6: after init, every returned range lies inside [heap_start, heap_end).
C6_InsideArena ==
    inited =>
        \A i \in 1..Len(allocs) :
            /\ heap_start <= allocs[i].addr
            /\ allocs[i].addr + allocs[i].size <= heap_end

\* C7: a request whose exact round_up(next, align) + size exceeds usize::MAX
\* is rejected with OUT_OF_MEMORY.
C7_NoWraparound ==
    [][\A t \in Threads :
         (/\ pc[t] = "loaded"
          /\ pc'[t] # "loaded"
          /\ RoundUpExact(current_next[t], layout[t].align) + layout[t].size
                > UsizeMax)
         => (last' = "oom" /\ next' = next)]_vars

\* C8: with a single caller, each returned address is at or past the end of
\* the range returned before it.
C8_MonotonicResults ==
    \A i \in 2..Len(allocs) :
        allocs[i].addr >= allocs[i - 1].addr + allocs[i - 1].size

\* C9: after init, no step of any caller lowers the stored value of next.
C9_CursorNeverBackward ==
    [][inited => next' >= next]_vars

\* C10: a call of dealloc leaves next, heap_start and heap_end unchanged and
\* does not fail.
C10_DeallocNoOp ==
    [][(last' = "dealloc" /\ ncalls' # ncalls)
         => (UNCHANGED <<next, heap_start, heap_end>> /\ ~panicked')]_vars

\* C10, witness: dealloc was called after init with blocks handed out and
\* the cursor past heap_start.
C10_DeallocCalled ==
    /\ inited
    /\ last = "dealloc"
    /\ Len(allocs) > 0
    /\ next > heap_start

\* a step in which the call of caller t, past its load, ends
Finishes(t) == pc[t] = "loaded" /\ pc'[t] # "loaded"

\* that step is taken with next still what the call loaded, as it always is
\* with a single caller
Fresh(t) == next = current_next[t]

\* round_up(next, align) + size of caller t's call, over the unbounded integers
Exact(t) == RoundUpExact(current_next[t], layout[t].align) + layout[t].size

\* the step hands the null pointer back to the caller
ReturnsNull == last' # "panic" /\ allocs' = allocs

\* the step hands a non-null pointer back to the caller
ReturnedNow == allocs'[Len(allocs')]

\* C11: with next = heap_start after init, alloc(HEAP_SIZE, 1) succeeds,
\* returns heap_start and leaves next = heap_end; an alloc(1, 1) right after
\* it fails with OUT_OF_MEMORY.
C11_ExhaustionBoundary ==
    [][\A t \in Threads :
         (Finishes(t) /\ inited /\ Fresh(t)) =>
            /\ (/\ next = heap_start
                /\ layout[t] = [size |-> HEAP_SIZE, align |-> 1])
               => (/\ last' = "stored"
                   /\ next' = heap_end
                   /\ Len(allocs') = Len(allocs) + 1
                   /\ ReturnedNow.addr = heap_start)
            /\ (/\ next = heap_end
                /\ last = "stored"
                /\ allocs # <<>>
                /\ allocs[Len(allocs)].addr = heap_start
                /\ allocs[Len(allocs)].size = HEAP_SIZE
                /\ layout[t] = [size |-> 1, align |-> 1])
               => (last' = "oom" /\ next' = next)]_vars

\* C12: after init, a call by a single caller returns OUT_OF_MEMORY exactly
\* when round_up(next, align) + size > heap_end, then leaving next alone;
\* otherwise it succeeds and stores that sum.
C12_ExhaustionOnlyFailure ==
    [][\A t \in Threads :
         (Finishes(t) /\ inited /\ Fresh(t)) =>
            /\ ReturnsNull <=> Exact(t) > heap_end
            /\ Exact(t) > heap_end => (last' = "oom" /\ next' = next)
            /\ Exact(t) <= heap_end => (last' = "stored" /\ next' = Exact(t))]_vars

\* C13: a successful call of a single caller returns the least multiple of
\* align that is >= the cursor it found, less than align above it, and sets
\* next to that address plus size.
C13_SuccessfulResult ==
    [][Len(allocs') > Len(allocs) =>
         /\ ReturnedNow.addr = RoundUpExact(next, ReturnedNow.align)
         /\ ReturnedNow.addr - next < ReturnedNow.align
         /\ next' = ReturnedNow.addr + ReturnedNow.size]_vars

\* C14: before init_heap has run, every alloc hands back the null pointer
\* and next stays 0.
C14_NothingBeforeInit ==
    ~inited => (next = 0 /\ allocs = <<>> /\ ~panicked)

\* C14, witness: before init, at least two calls have ended, the last one
\* through the store of line 53 (a zero-size request).
C14_AllocBeforeInit ==
    ~inited /\ last = "stored" /\ ncalls >= 2

\* C15: after init, a call of alloc returns the null pointer exactly when
\* the request was rejected; a call that stores never returns null.
C15_SentinelUnambiguous ==
    [][(AllocCall /\ inited /\ last' # "panic")
         => (allocs' = allocs <=> (last' = "oom" /\ next' = next))]_vars

\* C16: under concurrent callers, after init, heap_start <= next <= heap_end
\* and every returned range lies inside [heap_start, heap_end).
C16_BoundsSurviveRace ==
    inited =>
        /\ heap_start <= next
        /\ next <= heap_end
        /\ \A i \in 1..Len(allocs) :
            /\ heap_start <= allocs[i].addr
            /\ allocs[i].addr + allocs[i].size <= heap_end

\* C17: a call of alloc that has loaded next ends in its next step by
\* returning to its caller, and it does take that step.
C17_AlwaysReturns ==
    /\ [][\A t \in Threads : Finishes(t) => pc'[t] = "idle"]_vars
    /\ \A t \in Threads : (pc[t] = "loaded") ~> (pc[t] = "idle")

====
